---- MODULE Spec2Model ----
(***************************************************************************)
(* Model of the Dialogflow backend-for-frontend handler                    *)
(* (src/gcloud-function/main.py): request classification, tag and          *)
(* tool-parameter mapping, credential retrieval, the downstream call,      *)
(* response enrichment and the reply.                                      *)
(*                                                                         *)
(* JSON values are records whose field name is their type, so that values  *)
(* of different types can be compared: Str("x"), Num(10), Null.  A JSON    *)
(* object is a function from its keys (strings) to values.  A text is a    *)
(* sequence of tokens: every keyword of the regular expressions, the       *)
(* blank, "?" and a few other words are one token each.                    *)
(***************************************************************************)
EXTENDS Integers, Sequences, FiniteSets, TLC

VARIABLES env, store, phase, request, reply, response, sent, secretCalls, trace,
          configured, utterance, extracted, tenant

vars == <<env, store, phase, request, reply, response, sent, secretCalls, trace,
          configured, utterance, extracted, tenant>>

----------------------------------------------------------------------------
(* JSON values *)

Str(s) == [str |-> s]
Num(n) == [num |-> n]
Null == [null |-> TRUE]
Bool(b) == [bool |-> b]
Absent == [absent |-> TRUE]
Fmt(t, a) == [template |-> t, args |-> a]
\* a string given as its token sequence
Text(t) == [text |-> t]
EmptyMap == [k \in {} |-> Null]

\* dict.get(key) and dict.get(key, default)
Get(m, k) == IF k \in DOMAIN m THEN m[k] ELSE Null
GetDefault(m, k, d) == IF k \in DOMAIN m THEN m[k] ELSE d

\* Python truthiness of a JSON scalar
Truthy(v) == v \notin {Null, Absent, Str(""), Num(0), Bool(FALSE)}

\* d[key] = value on a copy of d
Put(m, k, v) == [x \in DOMAIN m \cup {k} |-> IF x = k THEN v ELSE m[x]]

----------------------------------------------------------------------------
(* Bounds *)

\* largest number of keys in a parameter mapping
MaxKeys == 2

\* default limits injected by the tool-parameter mapper
UserLimitDefault == 10
SearchLimitDefault == 20

----------------------------------------------------------------------------
(* Parameter mappings *)

ParamKeys ==
    {"nombre_iniciativa", "initiative_id", "nombre_area", "area_id",
     "user_id", "query", "action", "limit", "user_role", "user_token"}

ValuesOf(k) ==
    CASE k = "nombre_iniciativa" -> {Str("X"), Null}
      [] k = "action" -> {Str("company_overview"), Str("suggestions"), Str("other")}
      [] k = "limit" -> {Num(5), Null}
      [] k = "user_id" -> {Str("u1")}
      [] k = "query" -> {Str("revenue")}
      [] k = "nombre_area" -> {Str("Finanzas")}
      [] OTHER -> {Str("v")}

AllValues == UNION {ValuesOf(k) : k \in ParamKeys}

Mappings ==
    UNION {{m \in [D -> AllValues] : \A k \in D : m[k] \in ValuesOf(k)} :
           D \in {S \in SUBSET ParamKeys : Cardinality(S) <= MaxKeys}}

----------------------------------------------------------------------------
(* The tool-parameter mapper, first copy (main.py 166-201): raises when    *)
(* no predicate holds.                                                     *)

Normalized(a, p) == [ok |-> TRUE, action |-> a, params |-> p]
NoAction == [ok |-> FALSE, action |-> "", params |-> EmptyMap]

\* mutant: the first copy defaults to the company overview as well
StrictMapper_defaulting(params) ==
    IF "nombre_iniciativa" \in DOMAIN params \/ "initiative_id" \in DOMAIN params
    THEN Normalized("get_initiative_status",
             [k \in {"nombre_iniciativa", "initiative_id"} |-> Get(params, k)])
    ELSE IF "nombre_area" \in DOMAIN params \/ "area_id" \in DOMAIN params
    THEN Normalized("get_area_kpis",
             [k \in {"nombre_area", "area_id"} |-> Get(params, k)])
    ELSE IF "user_id" \in DOMAIN params
    THEN Normalized("get_user_initiatives",
             [k \in {"user_id", "limit"} |->
                 IF k = "user_id" THEN Get(params, "user_id")
                 ELSE GetDefault(params, "limit", Num(UserLimitDefault))])
    ELSE IF "query" \in DOMAIN params
    THEN Normalized("search_initiatives",
             [k \in {"query", "limit"} |->
                 IF k = "query" THEN Get(params, "query")
                 ELSE GetDefault(params, "limit", Num(SearchLimitDefault))])
    ELSE IF Get(params, "action") = Str("company_overview")
    THEN Normalized("get_company_overview", EmptyMap)
    ELSE IF Get(params, "action") = Str("suggestions")
    THEN Normalized("get_initiative_suggestions",
             [k \in {"area_id", "user_role"} |-> Get(params, k)])
    ELSE Normalized("get_company_overview", EmptyMap)

StrictMapper(params) ==
    IF "nombre_iniciativa" \in DOMAIN params \/ "initiative_id" \in DOMAIN params
    THEN Normalized("get_initiative_status",
             [k \in {"nombre_iniciativa", "initiative_id"} |-> Get(params, k)])
    ELSE IF "nombre_area" \in DOMAIN params \/ "area_id" \in DOMAIN params
    THEN Normalized("get_area_kpis",
             [k \in {"nombre_area", "area_id"} |-> Get(params, k)])
    ELSE IF "user_id" \in DOMAIN params
    THEN Normalized("get_user_initiatives",
             [k \in {"user_id", "limit"} |->
                 IF k = "user_id" THEN Get(params, "user_id")
                 ELSE GetDefault(params, "limit", Num(UserLimitDefault))])
    ELSE IF "query" \in DOMAIN params
    THEN Normalized("search_initiatives",
             [k \in {"query", "limit"} |->
                 IF k = "query" THEN Get(params, "query")
                 ELSE GetDefault(params, "limit", Num(SearchLimitDefault))])
    ELSE IF Get(params, "action") = Str("company_overview")
    THEN Normalized("get_company_overview", EmptyMap)
    ELSE IF Get(params, "action") = Str("suggestions")
    THEN Normalized("get_initiative_suggestions",
             [k \in {"area_id", "user_role"} |-> Get(params, k)])
    ELSE NoAction

(* The tool-parameter mapper, second copy (main.py 219-255): runs on both  *)
(* request shapes after the credentials were read, on the variable params  *)
(* (the session parameters of a webhook call, the tool parameters of a     *)
(* tool call), and defaults to the company overview.                       *)

\* mutant: the user_id predicate is tested before the others
DefaultingMapper_userFirst(params) ==
    IF "user_id" \in DOMAIN params
    THEN Normalized("get_user_initiatives",
             [k \in {"user_id", "limit"} |->
                 IF k = "user_id" THEN Get(params, "user_id")
                 ELSE GetDefault(params, "limit", Num(UserLimitDefault))])
    ELSE IF "nombre_iniciativa" \in DOMAIN params \/ "initiative_id" \in DOMAIN params
    THEN Normalized("get_initiative_status",
             [k \in {"nombre_iniciativa", "initiative_id"} |-> Get(params, k)])
    ELSE IF "nombre_area" \in DOMAIN params \/ "area_id" \in DOMAIN params
    THEN Normalized("get_area_kpis",
             [k \in {"nombre_area", "area_id"} |-> Get(params, k)])
    ELSE IF "query" \in DOMAIN params
    THEN Normalized("search_initiatives",
             [k \in {"query", "limit"} |->
                 IF k = "query" THEN Get(params, "query")
                 ELSE GetDefault(params, "limit", Num(SearchLimitDefault))])
    ELSE IF Get(params, "action") = Str("company_overview")
    THEN Normalized("get_company_overview", EmptyMap)
    ELSE IF Get(params, "action") = Str("suggestions")
    THEN Normalized("get_initiative_suggestions",
             [k \in {"area_id", "user_role"} |-> Get(params, k)])
    ELSE Normalized("get_company_overview", EmptyMap)

\* mutant: the defaults replace a supplied limit
DefaultingMapper_fixedLimit(params) ==
    IF "nombre_iniciativa" \in DOMAIN params \/ "initiative_id" \in DOMAIN params
    THEN Normalized("get_initiative_status",
             [k \in {"nombre_iniciativa", "initiative_id"} |-> Get(params, k)])
    ELSE IF "nombre_area" \in DOMAIN params \/ "area_id" \in DOMAIN params
    THEN Normalized("get_area_kpis",
             [k \in {"nombre_area", "area_id"} |-> Get(params, k)])
    ELSE IF "user_id" \in DOMAIN params
    THEN Normalized("get_user_initiatives",
             [k \in {"user_id", "limit"} |->
                 IF k = "user_id" THEN Get(params, "user_id")
                 ELSE Num(UserLimitDefault)])
    ELSE IF "query" \in DOMAIN params
    THEN Normalized("search_initiatives",
             [k \in {"query", "limit"} |->
                 IF k = "query" THEN Get(params, "query")
                 ELSE Num(SearchLimitDefault)])
    ELSE IF Get(params, "action") = Str("company_overview")
    THEN Normalized("get_company_overview", EmptyMap)
    ELSE IF Get(params, "action") = Str("suggestions")
    THEN Normalized("get_initiative_suggestions",
             [k \in {"area_id", "user_role"} |-> Get(params, k)])
    ELSE Normalized("get_company_overview", EmptyMap)

\* mutant: every forwarded key carries the value of nombre_iniciativa or area_id
DefaultingMapper_crossed(params) ==
    IF "nombre_iniciativa" \in DOMAIN params \/ "initiative_id" \in DOMAIN params
    THEN Normalized("get_initiative_status",
             [k \in {"nombre_iniciativa", "initiative_id"} |->
                 Get(params, "nombre_iniciativa")])
    ELSE IF "nombre_area" \in DOMAIN params \/ "area_id" \in DOMAIN params
    THEN Normalized("get_area_kpis",
             [k \in {"nombre_area", "area_id"} |-> Get(params, "area_id")])
    ELSE IF "user_id" \in DOMAIN params
    THEN Normalized("get_user_initiatives",
             [k \in {"user_id", "limit"} |->
                 IF k = "user_id" THEN Get(params, "user_id")
                 ELSE GetDefault(params, "limit", Num(UserLimitDefault))])
    ELSE IF "query" \in DOMAIN params
    THEN Normalized("search_initiatives",
             [k \in {"query", "limit"} |->
                 IF k = "query" THEN Get(params, "query")
                 ELSE GetDefault(params, "limit", Num(SearchLimitDefault))])
    ELSE IF Get(params, "action") = Str("company_overview")
    THEN Normalized("get_company_overview", EmptyMap)
    ELSE IF Get(params, "action") = Str("suggestions")
    THEN Normalized("get_initiative_suggestions",
             [k \in {"area_id", "user_role"} |-> Get(params, k)])
    ELSE Normalized("get_company_overview", EmptyMap)

\* mutant: the suggestions branch forwards the area only
DefaultingMapper_dropsRole(params) ==
    IF "nombre_iniciativa" \in DOMAIN params \/ "initiative_id" \in DOMAIN params
    THEN Normalized("get_initiative_status",
             [k \in {"nombre_iniciativa", "initiative_id"} |-> Get(params, k)])
    ELSE IF "nombre_area" \in DOMAIN params \/ "area_id" \in DOMAIN params
    THEN Normalized("get_area_kpis",
             [k \in {"nombre_area", "area_id"} |-> Get(params, k)])
    ELSE IF "user_id" \in DOMAIN params
    THEN Normalized("get_user_initiatives",
             [k \in {"user_id", "limit"} |->
                 IF k = "user_id" THEN Get(params, "user_id")
                 ELSE GetDefault(params, "limit", Num(UserLimitDefault))])
    ELSE IF "query" \in DOMAIN params
    THEN Normalized("search_initiatives",
             [k \in {"query", "limit"} |->
                 IF k = "query" THEN Get(params, "query")
                 ELSE GetDefault(params, "limit", Num(SearchLimitDefault))])
    ELSE IF Get(params, "action") = Str("company_overview")
    THEN Normalized("get_company_overview", EmptyMap)
    ELSE IF Get(params, "action") = Str("suggestions")
    THEN Normalized("get_initiative_suggestions",
             [k \in {"area_id"} |-> Get(params, k)])
    ELSE Normalized("get_company_overview", EmptyMap)

DefaultingMapper(params) ==
    IF "nombre_iniciativa" \in DOMAIN params \/ "initiative_id" \in DOMAIN params
    THEN Normalized("get_initiative_status",
             [k \in {"nombre_iniciativa", "initiative_id"} |-> Get(params, k)])
    ELSE IF "nombre_area" \in DOMAIN params \/ "area_id" \in DOMAIN params
    THEN Normalized("get_area_kpis",
             [k \in {"nombre_area", "area_id"} |-> Get(params, k)])
    ELSE IF "user_id" \in DOMAIN params
    THEN Normalized("get_user_initiatives",
             [k \in {"user_id", "limit"} |->
                 IF k = "user_id" THEN Get(params, "user_id")
                 ELSE GetDefault(params, "limit", Num(UserLimitDefault))])
    ELSE IF "query" \in DOMAIN params
    THEN Normalized("search_initiatives",
             [k \in {"query", "limit"} |->
                 IF k = "query" THEN Get(params, "query")
                 ELSE GetDefault(params, "limit", Num(SearchLimitDefault))])
    ELSE IF Get(params, "action") = Str("company_overview")
    THEN Normalized("get_company_overview", EmptyMap)
    ELSE IF Get(params, "action") = Str("suggestions")
    THEN Normalized("get_initiative_suggestions",
             [k \in {"area_id", "user_role"} |-> Get(params, k)])
    ELSE Normalized("get_company_overview", EmptyMap)

----------------------------------------------------------------------------
(* Free-text extraction (main.py 33-78).  A text is a sequence of tokens;  *)
(* a token is a blank, "?", the opening question mark, or a word in lower  *)
(* or capitalised form.  The regular expressions are matched as Python's   *)
(* backtracking matcher does: leftmost start, greedy quantifiers, the      *)
(* first alternative that leads to a match.                                *)

LowerWords ==
    {"iniciativa", "de", "la", "el", "progreso", "estado", "cómo", "va",
     "área", "división", "departamento", "kpis", "kpi", "del",
     "migración", "datos", "finanzas"}

\* str.title() of one lower-case word / str.lower() of one capitalised word
TitleForm ==
    [w \in LowerWords |->
        CASE w = "iniciativa" -> "Iniciativa" [] w = "de" -> "De"
          [] w = "la" -> "La" [] w = "el" -> "El"
          [] w = "progreso" -> "Progreso" [] w = "estado" -> "Estado"
          [] w = "cómo" -> "Cómo" [] w = "va" -> "Va"
          [] w = "área" -> "Área" [] w = "división" -> "División"
          [] w = "departamento" -> "Departamento"
          [] w = "kpis" -> "Kpis" [] w = "kpi" -> "Kpi" [] w = "del" -> "Del"
          [] w = "migración" -> "Migración" [] w = "datos" -> "Datos"
          [] w = "finanzas" -> "Finanzas"]

TitleWords == {TitleForm[w] : w \in LowerWords}
Blank == " "
Tokens == LowerWords \cup TitleWords \cup {Blank, "?", "¿"}

IsWord(tok) == tok \in LowerWords \cup TitleWords

LowerToken(tok) ==
    IF tok \in TitleWords THEN CHOOSE w \in LowerWords : TitleForm[w] = tok
    ELSE tok

\* text.lower()
Lower(text) == [i \in 1..Len(text) |-> LowerToken(text[i])]

\* text.strip()
RECURSIVE Strip(_)
Strip(text) ==
    IF text = <<>> THEN text
    ELSE IF Head(text) = Blank THEN Strip(Tail(text))
    ELSE IF text[Len(text)] = Blank THEN Strip(SubSeq(text, 1, Len(text) - 1))
    ELSE text

\* text.title(): the first letter of every run of letters is capitalised
Title(text) ==
    [i \in 1..Len(text) |->
        IF text[i] \in LowerWords /\ (i = 1 \/ ~IsWord(text[i - 1]))
        THEN TitleForm[text[i]]
        ELSE IF text[i] \in TitleWords /\ i > 1 /\ IsWord(text[i - 1])
        THEN LowerToken(text[i])
        ELSE text[i]]

\* pattern elements
Lit(S) == [k |-> "lit", s |-> S, p |-> <<>>]
Spaces == [k |-> "sp", s |-> {}, p |-> <<>>]
Opt(P) == [k |-> "opt", s |-> {}, p |-> P]
Capture == [k |-> "cap", s |-> {}, p |-> <<>>]

NoMatch == [ok |-> FALSE, from |-> 0, to |-> 0, end |-> 0]

\* number of blanks of text from position pos on
RECURSIVE BlankRun(_, _)
BlankRun(text, pos) ==
    IF pos <= Len(text) /\ text[pos] = Blank THEN 1 + BlankRun(text, pos + 1)
    ELSE 0

\* last position of the run of tokens other than "?" that starts at pos
RECURSIVE CaptureEnd(_, _)
CaptureEnd(text, pos) ==
    IF pos + 1 <= Len(text) /\ text[pos + 1] # "?" THEN CaptureEnd(text, pos + 1)
    ELSE pos

\* re.match of the pattern at position pos; group 1 is text[from..to] and
\* the match ends before position end
RECURSIVE MatchAt(_, _, _), MatchSpaces(_, _, _, _)
MatchAt(pat, text, pos) ==
    IF pat = <<>> THEN [ok |-> TRUE, from |-> 0, to |-> 0, end |-> pos]
    ELSE LET e == Head(pat)
             rest == Tail(pat)
         IN CASE e.k = "lit" ->
                   IF pos <= Len(text) /\ text[pos] \in e.s
                   THEN MatchAt(rest, text, pos + 1)
                   ELSE NoMatch
              [] e.k = "sp" -> MatchSpaces(rest, text, pos, BlankRun(text, pos))
              [] e.k = "opt" ->
                   LET with == MatchAt(e.p \o rest, text, pos)
                   IN IF with.ok THEN with ELSE MatchAt(rest, text, pos)
              [] e.k = "cap" ->
                   IF pos <= Len(text) /\ text[pos] # "?"
                   THEN LET r == MatchAt(rest, text, CaptureEnd(text, pos) + 1)
                        IN IF r.ok
                           THEN [r EXCEPT !.from = pos,
                                          !.to = CaptureEnd(text, pos)]
                           ELSE NoMatch
                   ELSE NoMatch

\* \s+ : greedy, gives blanks back one at a time
MatchSpaces(rest, text, pos, n) ==
    IF n < 1 THEN NoMatch
    ELSE LET r == MatchAt(rest, text, pos + n)
         IN IF r.ok THEN r ELSE MatchSpaces(rest, text, pos, n - 1)

\* re.search: the match at the leftmost position that has one
RECURSIVE SearchFrom(_, _, _)
SearchFrom(pat, text, pos) ==
    IF pos > Len(text) THEN NoMatch
    ELSE LET r == MatchAt(pat, text, pos)
         IN IF r.ok THEN r ELSE SearchFrom(pat, text, pos + 1)

Search(pat, text) == SearchFrom(pat, text, 1)

\* re.sub(r'^...', '', text): the match at the start of the text is removed
RemovePrefix(pat, text) ==
    LET r == MatchAt(pat, text, 1)
    IN IF r.ok THEN SubSeq(text, r.end, Len(text)) ELSE text

InitiativePatterns ==
    << <<Lit({"iniciativa"}), Spaces, Opt(<<Lit({"de"}), Spaces>>), Capture>>,
       <<Lit({"progreso", "estado"}), Spaces, Lit({"de"}), Spaces,
         Opt(<<Lit({"la"}), Spaces>>), Capture>>,
       <<Lit({"cómo"}), Spaces, Lit({"va"}), Spaces,
         Opt(<<Lit({"la"}), Spaces>>), Capture>> >>

InitiativeFiller ==
    <<Opt(<<Lit({"la"}), Spaces>>), Lit({"iniciativa"}), Spaces,
      Opt(<<Lit({"de"}), Spaces>>)>>

AreaPatterns ==
    << <<Lit({"área"}), Spaces, Opt(<<Lit({"de"}), Spaces>>), Capture>>,
       <<Lit({"división"}), Spaces, Opt(<<Lit({"de"}), Spaces>>), Capture>>,
       <<Lit({"departamento"}), Spaces, Opt(<<Lit({"de"}), Spaces>>), Capture>>,
       <<Lit({"kpis", "kpi"}), Spaces, Lit({"del", "de"}), Spaces,
         Lit({"área"}), Spaces, Opt(<<Lit({"de"}), Spaces>>), Capture>> >>

AreaFiller ==
    <<Opt(<<Lit({"la", "el"}), Spaces>>),
      Lit({"área", "división", "departamento"}), Spaces,
      Opt(<<Lit({"de"}), Spaces>>)>>

\* index of the first pattern of the list that matches, 0 when none does
RECURSIVE FirstMatching(_, _, _)
FirstMatching(patterns, text, i) ==
    IF i > Len(patterns) THEN 0
    ELSE IF Search(patterns[i], text).ok THEN i
    ELSE FirstMatching(patterns, text, i + 1)

\* group(1) of the match m, stripped, without the filler prefix, in title
\* case (main.py 49-52)
CleanName(filler, text_lower, m) ==
    [found |-> TRUE,
     name |-> Title(RemovePrefix(filler,
                        Strip(SubSeq(text_lower, m.from, m.to))))]

\* the result for the first matching pattern i; found is FALSE for None
NameFrom(patterns, filler, text_lower, i) ==
    IF i = 0 THEN [found |-> FALSE, name |-> <<>>]
    ELSE CleanName(filler, text_lower, Search(patterns[i], text_lower))

\* mutant: the last matching pattern of the list is used
ExtractLower_lastPattern(patterns, filler, text_lower) ==
    NameFrom(patterns, filler, text_lower,
             IF \A i \in 1..Len(patterns) : ~Search(patterns[i], text_lower).ok
             THEN 0
             ELSE CHOOSE i \in 1..Len(patterns) :
                     /\ Search(patterns[i], text_lower).ok
                     /\ \A j \in (i + 1)..Len(patterns) :
                            ~Search(patterns[j], text_lower).ok)

\* the loop over the patterns (main.py 46-54)
ExtractLower(patterns, filler, text_lower) ==
    NameFrom(patterns, filler, text_lower, FirstMatching(patterns, text_lower, 1))

ExtractWith(patterns, filler, text) ==
    ExtractLower(patterns, filler, Strip(Lower(text)))

extract_initiative_name_from_text(text) ==
    ExtractWith(InitiativePatterns, InitiativeFiller, text)

extract_area_name_from_text(text) ==
    ExtractWith(AreaPatterns, AreaFiller, text)

\* sample utterances of the webhook calls
Q1 == <<"¿", "Cómo", " ", "va", " ", "la", " ", "Iniciativa", " ", "de", " ",
        "Migración", " ", "de", " ", "Datos", "?">>
Q2 == <<"kpis", " ", "del", " ", "área", " ", "de", " ", "finanzas">>
Q3 == <<"datos", " ", "finanzas">>
Q4 == <<"iniciativa", " ", " ", "?">>

Utterances == {<<>>, Q1, Q2, Q3, Q4}

----------------------------------------------------------------------------
(* Configuration: the environment variables of the process and the answers *)
(* of the secret store to the reads of one invocation                      *)

SecretNames == {"supabase-edge-function-url", "supabase-anon-key",
                "stratix-platform-url"}

\* the store returns a value, returns an empty string, or raises
SecretStates == {"value", "empty", "error"}

\* project: one of GCP_PROJECT, GOOGLE_CLOUD_PROJECT, PROJECT_ID is set;
\* platformEnv: STRATIX_PLATFORM_URL is set
Environments == [project : BOOLEAN, platformEnv : BOOLEAN]

Unread == "unread"
NothingRead == [n \in SecretNames |-> Unread]

\* get_secret (main.py 11-31): re-raises every failure; st is what the
\* store answers to the reads of this invocation
get_secret(e, st, secret_name) ==
    IF ~e.project
    THEN [raised |-> TRUE, value |-> Null,
          error |-> Str("No project ID found in environment variables")]
    ELSE IF st[secret_name] = "error"
    THEN [raised |-> TRUE, value |-> Null,
          error |-> Str("secret version not accessible")]
    ELSE IF st[secret_name] = "empty"
    THEN [raised |-> FALSE, value |-> Str(""), error |-> Null]
    ELSE [raised |-> FALSE, value |-> Str(secret_name), error |-> Null]

\* get_platform_base_url (main.py 80-92): the environment variable, else
\* the secret; every failure becomes a ValueError
get_platform_base_url(e, st) ==
    IF e.platformEnv
    THEN [raised |-> FALSE, value |-> Str("STRATIX_PLATFORM_URL"),
          calls |-> <<>>]
    ELSE LET r == get_secret(e, st, "stratix-platform-url")
         IN [raised |-> r.raised, value |-> r.value,
             calls |-> <<"stratix-platform-url">>]

----------------------------------------------------------------------------
(* Request bodies and downstream replies                                   *)

\* absent: no body or invalid JSON (get_json gives None); empty: {};
\* list, string, number: a non-empty JSON value that is not an object
BodyKinds == {"absent", "empty", "list", "string", "number", "webhook", "tool"}

TagValues ==
    {Str("company_overview"), Str("initiative_status"), Str("area_kpis"),
     Str("foo"), Str(""), Absent}

ToolValues == {Str("x/area_kpis"), Absent}

WebhookBodies ==
    {[kind |-> "webhook", tag |-> t, params |-> m, text |-> u, tool |-> Absent] :
        t \in TagValues, m \in Mappings, u \in Utterances}

ToolBodies ==
    {[kind |-> "tool", tag |-> Absent, params |-> m, text |-> <<>>, tool |-> t] :
        t \in ToolValues, m \in Mappings}

OtherBodies ==
    {[kind |-> k, tag |-> Absent, params |-> EmptyMap, text |-> <<>>,
      tool |-> Absent] : k \in {"absent", "empty", "list", "string", "number"}}

Bodies == WebhookBodies \cup ToolBodies \cup OtherBodies

CompanyMetrics ==
    [k \in {"total_initiatives", "completed_initiatives", "overall_progress"} |->
        CASE k = "total_initiatives" -> Num(5)
          [] k = "completed_initiatives" -> Num(2)
          [] OTHER -> Num(42)]

DataFull ==
    [k \in {"id", "title", "progress", "status", "area_id", "area_name",
            "total_initiatives", "avg_progress", "company_metrics"} |->
        CASE k = "id" -> Str("i1")
          [] k = "title" -> Str("T")
          [] k = "progress" -> Num(50)
          [] k = "status" -> Str("en_progreso")
          [] k = "area_id" -> Str("a1")
          [] k = "area_name" -> Str("Finanzas")
          [] k = "total_initiatives" -> Num(5)
          [] k = "avg_progress" -> Num(42)
          [] OTHER -> CompanyMetrics]

DataBare == [k \in {"title"} |-> Str("T")]

Result(success, data) ==
    [k \in {"success", "data"} |-> IF k = "success" THEN Bool(success) ELSE data]

Replies ==
    {[kind |-> "network_error", status |-> 0, result |-> EmptyMap],
     [kind |-> "http", status |-> 500, result |-> EmptyMap],
     [kind |-> "http", status |-> 200,
      result |-> [k \in {"success", "error"} |->
                     IF k = "success" THEN Bool(FALSE) ELSE Str("not found")]],
     [kind |-> "http", status |-> 200,
      result |-> [k \in {"success"} |-> Bool(FALSE)]],
     [kind |-> "http", status |-> 200, result |-> Result(TRUE, EmptyMap)],
     [kind |-> "http", status |-> 200, result |-> Result(TRUE, DataFull)],
     [kind |-> "http", status |-> 200, result |-> Result(TRUE, DataBare)]}

NoReply == [kind |-> "none", status |-> 0, result |-> EmptyMap]

----------------------------------------------------------------------------
(* The handler bot_stratix_backend_generative (main.py 95-352)             *)

NoText == Absent
DefaultText == Str("Datos obtenidos correctamente de Stratix.")

\* the two except clauses (main.py 319-323)
NetworkError(detail) ==
    [k \in {"error"} |-> Fmt("Network error calling Supabase: {}", <<detail>>)]
InternalError(detail) ==
    [k \in {"error"} |-> Fmt("Internal error: {}", <<detail>>)]

\* the 400 reply to a falsy body (main.py 104-115)
NoDataResponse ==
    [status |-> 400, shape |-> "fulfillmentResponse",
     text |-> Str("Error: No se recibieron datos"), tool |-> Absent,
     output |-> EmptyMap]

\* the 500 reply to an empty credential (main.py 207-213)
NoCredentialsResponse(tool_name_full) ==
    [status |-> 500, shape |-> "tool_output", text |-> NoText,
     tool |-> tool_name_full,
     output |-> [k \in {"error"} |-> Str("Unable to retrieve Supabase credentials")]]

\* an exception that leaves the function: the framework answers 500
UnhandledResponse ==
    [status |-> 500, shape |-> "unhandled", text |-> NoText, tool |-> Absent,
     output |-> EmptyMap]

\* mutant: an unknown tag falls back to the company overview
MapTag_defaulting(body) ==
    [raised |-> FALSE, error |-> Null, action |-> "get_company_overview",
     supabase_params |-> [k \in {} |-> Null]]

\* {key: name} if name else {} (main.py 140, 147)
NameParams(key, extraction) ==
    IF extraction.found /\ extraction.name # <<>>
    THEN [k \in {key} |-> Text(extraction.name)]
    ELSE EmptyMap

Mapped(a, p) ==
    [raised |-> FALSE, error |-> Null, action |-> a, supabase_params |-> p]
Raised(err) ==
    [raised |-> TRUE, error |-> err, action |-> "", supabase_params |-> EmptyMap]

\* step 1, webhook branch (main.py 121-154); params is the session
\* parameter mapping, tool_name_full stays unbound
MapTagValue(tag, text) ==
    IF tag = Str("company_overview")
    THEN Mapped("get_company_overview", EmptyMap)
    ELSE IF tag = Str("initiative_status")
    THEN Mapped("get_initiative_status",
                NameParams("nombre_iniciativa",
                           extract_initiative_name_from_text(text)))
    ELSE IF tag = Str("area_kpis")
    THEN Mapped("get_area_kpis",
                NameParams("nombre_area", extract_area_name_from_text(text)))
    ELSE Raised(Fmt("Unsupported tag: {}", <<tag>>))

\* request_json.get('fulfillmentInfo', {}).get('tag', '')
MapTag(body) ==
    MapTagValue(IF body.tag = Absent THEN Str("") ELSE body.tag, body.text)

\* step 1, tool branch (main.py 157-201)
MapToolResult(n) ==
    IF n.ok THEN Mapped(n.action, n.params)
    ELSE Raised(Fmt("No valid action found for tool parameters: {}",
                    <<Str("params")>>))

MapTool(body) == MapToolResult(StrictMapper(body.params))

\* mutant: only the empty object is rejected
Falsy_emptyOnly(body) == body.kind = "empty"

\* not request_json (main.py 104): None and the empty object are falsy
Falsy(body) == body.kind \in {"absent", "empty"}

\* the local variables after step 1: tool is the value of tool_name_full,
\* Absent while the variable is unbound
Locals(m, params, tool_name_full, tr) ==
    [raised |-> m.raised, error |-> m.error, action |-> m.action,
     supabase_params |-> m.supabase_params, params |-> params,
     tool |-> tool_name_full, trace |-> tr]

\* step 1 (main.py 119-201)
Classify(body) ==
    CASE body.kind \in {"number", "absent"} ->
           Locals(Raised(Str("argument is not iterable")), EmptyMap, Absent,
                  <<"classify">>)
      [] body.kind \in {"list", "string"} ->
           Locals(Raised(Str("object has no attribute 'get'")), EmptyMap,
                  Absent, <<"classify">>)
      [] body.kind = "webhook" ->
           Locals(MapTag(body), body.params, Absent, <<"classify", "map_tag">>)
      [] body.kind \in {"tool", "empty"} ->
           Locals(MapTool(body), body.params,
                  IF body.tool = Absent THEN Str("") ELSE body.tool,
                  <<"classify", "map_tool">>)

\* step 2 (main.py 204-205): the second secret is read only when the first
\* read did not raise
CredentialsRead(url, key) ==
    IF url.raised
    THEN [raised |-> TRUE, error |-> url.error, url |-> Null, key |-> Null,
          calls |-> <<"supabase-edge-function-url">>]
    ELSE [raised |-> key.raised, error |-> key.error, url |-> url.value,
          key |-> key.value,
          calls |-> <<"supabase-edge-function-url", "supabase-anon-key">>]

Credentials(e, st) ==
    CredentialsRead(get_secret(e, st, "supabase-edge-function-url"),
                    get_secret(e, st, "supabase-anon-key"))

\* mutant: the action parameter of the caller is forwarded as the action
Payload_callerAction(action, supabase_params, params) ==
    [k \in {"action", "params"} \cup ({"user_token"} \cap DOMAIN params) |->
        CASE k = "action" -> Get(params, "action")
          [] k = "params" -> supabase_params
          [] OTHER -> params["user_token"]]

\* the request body of the downstream call (main.py 264-271)
Payload(action, supabase_params, params) ==
    [k \in {"action", "params"} \cup ({"user_token"} \cap DOMAIN params) |->
        CASE k = "action" -> Str(action)
          [] k = "params" -> supabase_params
          [] OTHER -> params["user_token"]]

\* output_data['link'] = ... if platform_url and output_data.get(id_key)
Linked(data, url, id_key, path) ==
    IF Truthy(url) /\ Truthy(Get(data, id_key))
    THEN Put(data, "link", Fmt(path, <<url, Get(data, id_key)>>))
    ELSE data

\* the three summaries (main.py 292-306) with the platform URL url
EnrichWith(action, data, url) ==
    IF action = "get_initiative_status" /\ data # EmptyMap
    THEN Put(Linked(data, url, "id", "{}/initiatives/{}"), "resumen",
             Fmt("La iniciativa '{}' tiene un progreso del {}% y está en estado '{}'.",
                 <<GetDefault(data, "title", Str("")),
                   GetDefault(data, "progress", Num(0)),
                   GetDefault(data, "status", Str(""))>>))
    ELSE IF action = "get_area_kpis" /\ data # EmptyMap
    THEN Put(Linked(data, url, "area_id", "{}/areas/{}"), "resumen",
             Fmt("El área '{}' tiene {} iniciativas con un progreso promedio del {}%.",
                 <<GetDefault(data, "area_name", Str("")),
                   GetDefault(data, "total_initiatives", Num(0)),
                   GetDefault(data, "avg_progress", Num(0))>>))
    ELSE IF action = "get_company_overview" /\ data # EmptyMap
    THEN LET metrics == GetDefault(data, "company_metrics", EmptyMap)
             summary ==
                 Put(data, "resumen",
                     Fmt("La empresa tiene {} iniciativas, {} completadas y un progreso general del {}%.",
                         <<GetDefault(metrics, "total_initiatives", Num(0)),
                           GetDefault(metrics, "completed_initiatives", Num(0)),
                           GetDefault(metrics, "overall_progress", Num(0))>>))
         IN IF Truthy(url) THEN Put(summary, "link", Fmt("{}/dashboard", <<url>>))
            ELSE summary
    ELSE data

\* response enrichment (main.py 289-310): the platform URL is resolved
\* first, inside the try; a ValueError skips the whole block
EnrichResolved(action, data, platform_url) ==
    IF platform_url.raised THEN data
    ELSE EnrichWith(action, data, platform_url.value)

Enrich(action, data, e, st) ==
    EnrichResolved(action, data, get_platform_base_url(e, st))

\* the handling of the downstream reply (main.py 283-320)
Downstream(action, r, e, st) ==
    IF r.kind = "network_error"
    THEN [output |-> NetworkError(Str("connection failed")), calls |-> <<>>,
          trace |-> <<"call">>]
    ELSE IF r.status = 200
    THEN IF Truthy(Get(r.result, "success"))
         THEN [output |-> Enrich(action, GetDefault(r.result, "data", EmptyMap), e, st),
               calls |-> get_platform_base_url(e, st).calls,
               trace |-> <<"call", "enrich">>]
         ELSE [output |-> [k \in {"error"} |->
                              GetDefault(r.result, "error",
                                         Str("Unknown error from Supabase"))],
               calls |-> <<>>, trace |-> <<"call">>]
    ELSE [output |-> [k \in {"error"} |->
                         Fmt("Supabase request failed: {} - {}",
                             <<Num(r.status), Str("text")>>)],
          calls |-> <<>>, trace |-> <<"call">>]

\* mutant: the webhook reply does not mention the error
Respond_hidesError(body, output_data, tool_name_full) ==
    IF body.kind \in {"number", "absent"} THEN UnhandledResponse
    ELSE IF body.kind = "webhook"
    THEN [status |-> 200, shape |-> "fulfillmentResponse",
          text |-> GetDefault(output_data, "resumen", DefaultText),
          tool |-> Absent, output |-> EmptyMap]
    ELSE IF tool_name_full = Absent THEN UnhandledResponse
    ELSE [status |-> 200, shape |-> "tool_output", text |-> NoText,
          tool |-> tool_name_full, output |-> output_data]

\* step 5 (main.py 326-352)
Respond(body, output_data, tool_name_full) ==
    IF body.kind \in {"number", "absent"} THEN UnhandledResponse
    ELSE IF body.kind = "webhook"
    THEN [status |-> 200, shape |-> "fulfillmentResponse",
          text |-> IF "error" \in DOMAIN output_data
                   THEN Fmt("Lo siento, hubo un error: {}", <<output_data["error"]>>)
                   ELSE GetDefault(output_data, "resumen", DefaultText),
          tool |-> Absent, output |-> EmptyMap]
    ELSE IF tool_name_full = Absent THEN UnhandledResponse
    ELSE [status |-> 200, shape |-> "tool_output", text |-> NoText,
          tool |-> tool_name_full, output |-> output_data]

Outcome(resp, msgs, calls, r, tr) ==
    [response |-> resp, sent |-> msgs, secretCalls |-> calls, reply |-> r,
     trace |-> tr]

\* mutant: a failed downstream call is repeated once
CallAndRespond_retry(body, c, cred, n, d, r) ==
    Outcome(Respond(body, d.output, c.tool),
            IF "error" \in DOMAIN d.output
            THEN <<Payload(n.action, n.params, c.params),
                   Payload(n.action, n.params, c.params)>>
            ELSE <<Payload(n.action, n.params, c.params)>>,
            cred.calls \o d.calls, r,
            c.trace \o <<"credentials", "remap">> \o d.trace \o <<"respond">>)

\* steps 3 to 5 (main.py 215-352) with the payload n of the second mapper
\* and the outcome d of the downstream call
CallAndRespond(body, c, cred, n, d, r) ==
    Outcome(Respond(body, d.output, c.tool),
            <<Payload(n.action, n.params, c.params)>>,
            cred.calls \o d.calls, r,
            c.trace \o <<"credentials", "remap">> \o d.trace \o <<"respond">>)

Remapped(body, c, cred, n, e, st, r) ==
    CallAndRespond(body, c, cred, n, Downstream(n.action, r, e, st), r)

\* the invocation after the body check, with the locals c of step 1 and
\* the credentials cred of step 2
Proceed(body, c, cred, e, st, r) ==
    IF c.raised
    THEN Outcome(Respond(body, InternalError(c.error), c.tool),
                 <<>>, <<>>, NoReply, c.trace \o <<"respond">>)
    ELSE IF cred.raised
    THEN Outcome(Respond(body, InternalError(cred.error), c.tool),
                 <<>>, cred.calls, NoReply,
                 c.trace \o <<"credentials", "respond">>)
    ELSE IF ~Truthy(cred.url) \/ ~Truthy(cred.key)
    THEN IF c.tool = Absent
         THEN Outcome(Respond(body,
                          InternalError(Str("local variable 'tool_name_full' referenced before assignment")),
                          c.tool),
                      <<>>, cred.calls, NoReply,
                      c.trace \o <<"credentials", "respond">>)
         ELSE Outcome(NoCredentialsResponse(c.tool), <<>>, cred.calls,
                      NoReply, c.trace \o <<"credentials">>)
    ELSE Remapped(body, c, cred, DefaultingMapper(c.params), e, st, r)

\* one invocation on the body, in environment e, the secret store
\* answering st and the downstream API answering r
Handle(body, e, st, r) ==
    IF Falsy(body)
    THEN Outcome(NoDataResponse, <<>>, <<>>, NoReply, <<>>)
    ELSE Proceed(body, Classify(body), Credentials(e, st), e, st, r)

----------------------------------------------------------------------------
(* The state machine: one process, one invocation at a time                *)

\* no extraction function was applied
NotExtracted == [by |-> "none", found |-> FALSE, name |-> <<>>]

NoRequest == [kind |-> "none", tag |-> Absent, params |-> EmptyMap,
              text |-> <<>>, tool |-> Absent]
NoResponse == [status |-> 0, shape |-> "none", text |-> NoText, tool |-> Absent,
               output |-> EmptyMap]

\* the tenant-resolving handler awaits a request
TenantIdle ==
    [phase |-> "idle", request |-> NoRequest, answers |-> <<>>,
     queries |-> <<>>, response |-> NoResponse]

Init ==
    /\ env \in Environments
    /\ store = NothingRead
    /\ phase = "idle"
    /\ request = NoRequest
    /\ reply = NoReply
    /\ response = NoResponse
    /\ sent = <<>>
    /\ secretCalls = <<>>
    /\ trace = <<>>
    /\ configured = FALSE
    /\ utterance = <<>>
    /\ extracted = NotExtracted
    /\ tenant = TenantIdle

Succeeded(r) == r.kind = "http" /\ r.status = 200 /\ Truthy(Get(r.result, "success"))

\* configured is a history of the process: an earlier or the present
\* invocation obtained the endpoint URL from the secret store.  The code
\* keeps no such value: get_secret (main.py 11-31) stores nothing.

\* The answers the collaborators give in one invocation.  A collaborator
\* that is not asked gives no answer: the key is read only after the URL
\* was read without an error, the downstream API is called only with two
\* non-empty credentials, and the platform URL secret is read only after a
\* successful reply when STRATIX_PLATFORM_URL is unset.
Answers ==
    [pe \in BOOLEAN |->
        {a \in [store : [SecretNames -> SecretStates \cup {Unread}],
                reply : Replies \cup {NoReply}] :
            /\ a.store["supabase-edge-function-url"] # Unread
            /\ (a.store["supabase-anon-key"] = Unread)
                   = (a.store["supabase-edge-function-url"] = "error")
            /\ (a.reply = NoReply)
                   = ~(/\ a.store["supabase-edge-function-url"] = "value"
                       /\ a.store["supabase-anon-key"] = "value")
            /\ (a.store["stratix-platform-url"] = Unread)
                   = ~(Succeeded(a.reply) /\ ~pe)}]

NoAnswers == {[store |-> NothingRead, reply |-> NoReply]}

\* the invocation reaches the credential reads of step 2
ReadsStore(body, e) ==
    /\ ~Falsy(body)
    /\ ~Classify(body).raised
    /\ e.project

\* the state after the invocation with outcome h
Answered(body, a, h) ==
    /\ request' = body
    /\ store' = a.store
    /\ reply' = a.reply
    /\ response' = h.response
    /\ sent' = h.sent
    /\ secretCalls' = h.secretCalls
    /\ trace' = h.trace
    /\ configured' = (configured \/ a.store["supabase-edge-function-url"] = "value")

\* an HTTP request arrives and is answered
bot_stratix_backend_generative ==
    /\ phase = "idle"
    /\ \E body \in Bodies :
          \E a \in IF ReadsStore(body, env) THEN Answers[env.platformEnv]
                   ELSE NoAnswers :
             Answered(body, a, Handle(body, env, a.store, a.reply))
    /\ phase' = "responded"
    /\ UNCHANGED <<env, utterance, extracted, tenant>>

\* the per-request values are discarded after the response is emitted
Discard ==
    /\ phase = "responded"
    /\ phase' = "idle"
    /\ store' = NothingRead
    /\ request' = NoRequest
    /\ reply' = NoReply
    /\ response' = NoResponse
    /\ sent' = <<>>
    /\ secretCalls' = <<>>
    /\ trace' = <<>>
    /\ UNCHANGED <<env, configured, utterance, extracted, tenant>>

Next == bot_stratix_backend_generative \/ Discard

Spec == Init /\ [][Next]_vars

----------------------------------------------------------------------------
(* The two extraction functions applied to bounded utterances *)

MaxWords == 4

\* the words the bounded utterances are made of
Vocabulary ==
    {"iniciativa", "estado", "de", "la", "Datos", "área", "división", "?"}

\* the words of ws separated by single blanks
RECURSIVE Joined(_)
Joined(ws) ==
    IF Len(ws) <= 1 THEN ws
    ELSE <<Head(ws), Blank>> \o Joined(Tail(ws))

Phrases ==
    UNION {{Joined(ws) : ws \in [1..n -> Vocabulary]} : n \in 0..MaxWords}

ExtractionInputs == Phrases \cup Utterances

InitExtract ==
    /\ utterance \in ExtractionInputs
    /\ extracted = NotExtracted
    /\ env = [project |-> FALSE, platformEnv |-> FALSE]
    /\ store = NothingRead
    /\ phase = "idle"
    /\ request = NoRequest
    /\ reply = NoReply
    /\ response = NoResponse
    /\ sent = <<>>
    /\ secretCalls = <<>>
    /\ trace = <<>>
    /\ configured = FALSE
    /\ tenant = TenantIdle

Extracted(by, result) ==
    /\ extracted = NotExtracted
    /\ extracted' = [by |-> by, found |-> result.found, name |-> result.name]
    /\ UNCHANGED <<env, store, phase, request, reply, response, sent,
                   secretCalls, trace, configured, utterance, tenant>>

ExtractInitiative ==
    Extracted("initiative", extract_initiative_name_from_text(utterance))

ExtractArea ==
    Extracted("area", extract_area_name_from_text(utterance))

NextExtract == ExtractInitiative \/ ExtractArea

SpecExtract == InitExtract /\ [][NextExtract]_vars

----------------------------------------------------------------------------
(* Properties                                                              *)

Responded == phase = "responded"
IsWebhook == request.kind = "webhook"
IsTool == request.kind = "tool"
Forwarded == Responded /\ sent # <<>>
Has(k) == k \in DOMAIN request.params

\* the six predicates of the tool-parameter mapper in their fixed order,
\* and the action of each
Predicates ==
    << Has("nombre_iniciativa") \/ Has("initiative_id"),
       Has("nombre_area") \/ Has("area_id"),
       Has("user_id"),
       Has("query"),
       Get(request.params, "action") = Str("company_overview"),
       Get(request.params, "action") = Str("suggestions") >>

ActionsInOrder ==
    <<"get_initiative_status", "get_area_kpis", "get_user_initiatives",
      "search_initiatives", "get_company_overview",
      "get_initiative_suggestions">>

\* C1: the action forwarded for a tool call is the action of the first
\* predicate that holds in the fixed order; with nombre_iniciativa and
\* user_id both present it is get_initiative_status.
C1_FirstMatchWins ==
    (IsTool /\ Forwarded) =>
        /\ \E i \in 1..6 :
              /\ Predicates[i]
              /\ \A j \in 1..(i - 1) : ~Predicates[j]
              /\ sent[1]["action"] = Str(ActionsInOrder[i])
        /\ (Has("nombre_iniciativa") /\ Has("user_id"))
              => sent[1]["action"] = Str("get_initiative_status")

C1_Witness ==
    /\ IsTool /\ Forwarded
    /\ Has("nombre_iniciativa") /\ Has("user_id")
    /\ sent[1]["action"] = Str("get_initiative_status")

TableTags == {Str("company_overview"), Str("initiative_status"), Str("area_kpis")}

TagTable(tag) ==
    CASE tag = Str("company_overview") -> "get_company_overview"
      [] tag = Str("initiative_status") -> "get_initiative_status"
      [] tag = Str("area_kpis") -> "get_area_kpis"

\* C2: the action forwarded for a webhook call with a tag of the table is
\* the action the table gives to the tag, whatever the session parameters
\* and the text are.
C2_TagDecidesAction ==
    (IsWebhook /\ Forwarded /\ request.tag \in TableTags) =>
        sent[1]["action"] = Str(TagTable(request.tag))

\* the params the tag table derives from the raw text
ExtractedParams(key, e) ==
    IF e.found /\ e.name # <<>> THEN [k \in {key} |-> Text(e.name)]
    ELSE EmptyMap

\* C3: the params forwarded for a webhook call with tag initiative_status
\* (area_kpis) are {nombre_iniciativa: name} ({nombre_area: name}) when the
\* extraction over the raw text gives a name and the empty mapping when it
\* gives none, whatever the session parameters are.
C3_TextDecidesParams ==
    /\ (IsWebhook /\ Forwarded /\ request.tag = Str("initiative_status")) =>
          sent[1]["params"] =
              ExtractedParams("nombre_iniciativa",
                              extract_initiative_name_from_text(request.text))
    /\ (IsWebhook /\ Forwarded /\ request.tag = Str("area_kpis")) =>
          sent[1]["params"] =
              ExtractedParams("nombre_area",
                              extract_area_name_from_text(request.text))

\* the request fails classification or normalization
FailsNormalization ==
    \/ request.kind = "absent"
    \/ IsWebhook /\ request.tag \notin TableTags
    \/ IsTool /\ \A i \in 1..6 : ~Predicates[i]

\* C4: a request that fails classification or normalization is answered
\* with a 4xx status, an unsupported webhook tag with 400.
C4_NormalizationErrorIs4xx ==
    (Responded /\ FailsNormalization) =>
        /\ response.status \in 400..499
        /\ (IsWebhook => response.status = 400)

\* C5: for a webhook call whose tag is outside the table (absent and empty
\* included) nothing is sent to the downstream API, no credential is
\* retrieved, and the reply text reports the failure.
C5_UnsupportedTagStops ==
    (Responded /\ IsWebhook /\ request.tag \notin TableTags) =>
        /\ sent = <<>>
        /\ secretCalls = <<>>
        /\ reply = NoReply
        /\ response.shape = "fulfillmentResponse"
        /\ response.text =
              Fmt("Lo siento, hubo un error: {}",
                  <<Fmt("Internal error: {}",
                        <<Fmt("Unsupported tag: {}",
                              <<IF request.tag = Absent THEN Str("")
                                ELSE request.tag>>)>>)>>)

C5_Witness ==
    /\ Responded /\ IsWebhook /\ request.tag = Str("foo")
    /\ env.project
    /\ response.shape = "fulfillmentResponse"
    /\ sent = <<>>

\* C6: for a tool call whose parameters satisfy none of the six predicates
\* nothing is sent to the downstream API (no default to the company
\* overview) and tool_output[0].output has an error field.
C6_NoMatchingActionFails ==
    (Responded /\ IsTool /\ \A i \in 1..6 : ~Predicates[i]) =>
        /\ sent = <<>>
        /\ response.shape = "tool_output"
        /\ "error" \in DOMAIN response.output
        /\ response.output["error"] =
              Fmt("Internal error: {}",
                  <<Fmt("No valid action found for tool parameters: {}",
                        <<Str("params")>>)>>)

C6_Witness ==
    /\ Responded /\ IsTool /\ env.project
    /\ Has("limit") /\ Get(request.params, "action") = Str("other")
    /\ "error" \in DOMAIN response.output
    /\ sent = <<>>

\* C7: a missing or invalid body is answered with HTTP 400 and an error
\* payload, and nothing else happens: no normalization, no credential
\* retrieval, no downstream call.
C7_MalformedBodyIs400 ==
    (Responded /\ request.kind = "absent") =>
        /\ response.status = 400
        /\ response.shape = "fulfillmentResponse"
        /\ response.text = Str("Error: No se recibieron datos")
        /\ trace = <<>>
        /\ secretCalls = <<>>
        /\ sent = <<>>

C7_Witness ==
    /\ Responded /\ request.kind = "absent" /\ env.project
    /\ response.status = 400

\* the platform base URL cannot be resolved: the variable is unset and the
\* secret cannot be read
PlatformUrlMissing ==
    /\ ~env.platformEnv
    /\ store["stratix-platform-url"] = "error"

\* C8: when the platform base URL is missing, a successful
\* get_initiative_status reply with non-empty data is answered with an
\* output that has no link key but has resumen from the template.
C8_ResumenWithoutLink ==
    (/\ IsTool /\ Forwarded /\ PlatformUrlMissing
     /\ sent[1]["action"] = Str("get_initiative_status")
     /\ Succeeded(reply) /\ Get(reply.result, "data") = DataFull) =>
        /\ response.shape = "tool_output"
        /\ "link" \notin DOMAIN response.output
        /\ "resumen" \in DOMAIN response.output
        /\ response.output["resumen"] =
              Fmt("La iniciativa '{}' tiene un progreso del {}% y está en estado '{}'.",
                  <<Str("T"), Num(50), Str("en_progreso")>>)

C10_DefaultLimits ==
    (IsTool /\ Forwarded) =>
        /\ sent[1]["action"] = Str("search_initiatives") =>
              sent[1]["params"]["limit"] =
                  IF Has("limit") THEN request.params["limit"] ELSE Num(20)
        /\ sent[1]["action"] = Str("get_user_initiatives") =>
              sent[1]["params"]["limit"] =
                  IF Has("limit") THEN request.params["limit"] ELSE Num(10)

C10_Witness ==
    /\ IsTool /\ Forwarded
    /\ request.params = [k \in {"query"} |-> Str("revenue")]
    /\ sent[1]["action"] = Str("search_initiatives")
    /\ sent[1]["params"]["limit"] = Num(20)

\* the reply text of a webhook call reports an error
Apologises ==
    /\ response.shape = "fulfillmentResponse"
    /\ "template" \in DOMAIN response.text
    /\ response.text.template = "Lo siento, hubo un error: {}"

\* C11: an invocation sends at most one request to the downstream API, and
\* a network failure, a status other than 200 or a reply with success
\* false is surfaced as an error in the output, without a second call.
C11_NoRetry ==
    /\ Len(sent) <= 1
    /\ (Forwarded /\ ~Succeeded(reply)) =>
          /\ Len(sent) = 1
          /\ reply # NoReply
          /\ IsTool => "error" \in DOMAIN response.output
          /\ IsWebhook => Apologises

C11_Witness ==
    /\ IsTool /\ Forwarded
    /\ reply.kind = "http" /\ reply.status = 500
    /\ Len(sent) = 1
    /\ "error" \in DOMAIN response.output

\* C12: within one process the configuration is fetched from the secret
\* store at most once: an invocation that starts after the endpoint URL
\* was obtained does not read it from the store again.
C12_ConfigurationFetchedOnce ==
    [][(phase = "idle" /\ configured) =>
           store'["supabase-edge-function-url"] = Unread]_vars

\* the invocation reached the credential reads and a credential could not
\* be obtained: no project id, the store raised, or the secret is empty
CredentialUnobtainable ==
    /\ Responded
    /\ IsWebhook \/ IsTool
    /\ ~Classify(request).raised
    /\ \/ ~env.project
       \/ store["supabase-edge-function-url"] \in {"error", "empty"}
       \/ store["supabase-anon-key"] \in {"error", "empty"}

\* C13: when a downstream credential cannot be obtained the invocation
\* ends with HTTP 500 and no request is sent, for both request shapes.
C13_NoCredentialIs500 ==
    CredentialUnobtainable => (response.status = 500 /\ sent = <<>>)

\* the error a failed downstream call r is reported with
CarriesFailure(detail, r) ==
    IF r.kind = "network_error"
    THEN /\ "template" \in DOMAIN detail
         /\ detail.template = "Network error calling Supabase: {}"
    ELSE IF r.status # 200
    THEN /\ "template" \in DOMAIN detail
         /\ detail.template = "Supabase request failed: {} - {}"
         /\ detail.args[1] = Num(r.status)
    ELSE detail = GetDefault(r.result, "error", Str("Unknown error from Supabase"))

\* C14: for a webhook call every failure of the downstream call (network
\* exception, status other than 200, success false) is caught: the reply
\* is HTTP 200 with one fulfillment message whose text carries the error.
C14_WebhookFailureIs200 ==
    (IsWebhook /\ Forwarded /\ ~Succeeded(reply)) =>
        /\ response.status = 200
        /\ Apologises
        /\ Len(response.text.args) = 1
        /\ CarriesFailure(response.text.args[1], reply)

C14_Witness ==
    /\ IsWebhook /\ Forwarded
    /\ reply.kind = "network_error"
    /\ response.status = 200
    /\ Apologises

\* the body passed the body check of main.py 104
Accepted == Responded /\ ~Falsy(request)

\* C15: the response shape matches the request variant: a body with the
\* key fulfillmentInfo is answered with a fulfillmentResponse of one text,
\* every other accepted body with a tool_output entry whose tool is the
\* tool value of the request, on success and on every error path.
C15_ShapeMatchesVariant ==
    Accepted =>
        IF IsWebhook
        THEN response.shape = "fulfillmentResponse" /\ response.text # NoText
        ELSE /\ response.shape = "tool_output"
             /\ response.tool = (IF request.tool = Absent THEN Str("")
                                 ELSE request.tool)

\* the patterns of the list that match the text
Matching(patterns, text) ==
    {i \in 1..Len(patterns) : Search(patterns[i], text).ok}

Least(S) == CHOOSE i \in S : \A j \in S : i <= j

\* group 1 of the match of pattern i
Group1(patterns, text, i) ==
    SubSeq(text, Search(patterns[i], text).from, Search(patterns[i], text).to)

\* the name derived from the match of pattern i
DerivedFrom(patterns, filler, text, i) ==
    Title(RemovePrefix(filler, Strip(Group1(patterns, text, i))))

FirstMatchDecides(patterns, filler, text) ==
    /\ extracted.found = (Matching(patterns, text) # {})
    /\ Matching(patterns, text) # {} =>
          extracted.name =
              DerivedFrom(patterns, filler, text, Least(Matching(patterns, text)))

\* C16: an extraction returns absent exactly when no pattern of its list
\* matches the lowercased, trimmed text; otherwise the name is derived
\* from the first pattern in list order that matches, without the filler
\* prefix and in title case.
C16_FirstPatternDecides ==
    /\ extracted.by = "initiative" =>
          FirstMatchDecides(InitiativePatterns, InitiativeFiller,
                            Strip(Lower(utterance)))
    /\ extracted.by = "area" =>
          FirstMatchDecides(AreaPatterns, AreaFiller, Strip(Lower(utterance)))

\* a later pattern matches too and would give another name
LaterPatternDiffers(patterns, filler, text) ==
    \E i \in Matching(patterns, text) :
        /\ i > Least(Matching(patterns, text))
        /\ DerivedFrom(patterns, filler, text, i) # extracted.name

C16_Witness ==
    /\ extracted.by = "area"
    /\ extracted.found
    /\ LaterPatternDiffers(AreaPatterns, AreaFiller, Strip(Lower(utterance)))

\* the closed set of actions of the downstream API
ClosedActions ==
    {Str("get_company_overview"), Str("get_initiative_status"),
     Str("get_area_kpis"), Str("get_user_initiatives"),
     Str("search_initiatives"), Str("get_initiative_suggestions")}

\* C17: every request sent to the downstream API, on both request shapes,
\* has an action, and it is one of the six values of the closed set.
C17_ActionInClosedSet ==
    \A i \in 1..Len(sent) :
        /\ "action" \in DOMAIN sent[i]
        /\ sent[i]["action"] \in ClosedActions

C17_Witness ==
    /\ IsWebhook /\ Forwarded
    /\ request.tag = Str("area_kpis")
    /\ Len(sent) = 1
    /\ sent[1]["action"] \in ClosedActions

----------------------------------------------------------------------------
(* The tenant-resolving handler (src/stratix-assistant/backend-updated.py) *)

\* tool_parameters of the requests to the tenant-resolving handler
UserIdValues == {Absent, Str("u1"), Str(""), Null}

TenantNames ==
    [nombre_iniciativa |-> Str("Migración"), nombre_area |-> Str("Finanzas"),
     user_query |-> Str("resumen")]

TenantMappings ==
    {[k \in D \cup (IF u = Absent THEN {} ELSE {"user_id"}) |->
         IF k = "user_id" THEN u ELSE TenantNames[k]] :
        D \in SUBSET {"nombre_iniciativa", "nombre_area", "user_query"},
        u \in UserIdValues}

TenantBodies ==
    {[kind |-> k, tag |-> Absent, params |-> EmptyMap, text |-> <<>>,
      tool |-> Absent] : k \in {"absent", "empty"}}
    \cup {[kind |-> "tool", tag |-> Absent, params |-> m, text |-> <<>>,
           tool |-> t] : t \in ToolValues, m \in TenantMappings}

\* What execute() gives for a query: it raises, the data are empty, the
\* data are a row (for initiatives: with or without area_id), or the row
\* lacks a column the handler reads.
QueryAnswers == {"raises", "empty", "row", "row_no_area", "malformed"}
Unasked == "unasked"
MaxQueries == 3
AnswerVectors == [1..MaxQueries -> QueryAnswers \cup {Unasked}]

TenantReply(status, tool_name_full, output_data, queries, valid) ==
    [status |-> status, shape |-> "tool_output", text |-> NoText,
     tool |-> tool_name_full, output |-> output_data, queries |-> queries,
     valid |-> valid]

TenantError(detail) == [k \in {"error"} |-> detail]

\* the except clause (backend-updated.py 210-214) and the reply of 217-226
TenantFailure(tool_name_full, queries, valid) ==
    TenantReply(200, tool_name_full,
        TenantError(Fmt("Error interno del servidor al acceder a los datos: {}",
                        <<Str("exception")>>)),
        queries, valid)

\* output_data of a found initiative (backend-updated.py 106-120)
InitiativeOutput(area_name) ==
    [k \in {"progreso", "link", "resumen", "detalles"} |->
        CASE k = "progreso" -> Fmt("{}%", <<Num(40)>>)
          [] k = "link" ->
               Fmt("https://stratix-platform.vercel.app/initiatives/{}", <<Num(7)>>)
          [] k = "resumen" ->
               Fmt("La iniciativa '{}' en el área {} tiene un progreso del {}. Estado: {}.{}",
                   <<Str("Migración"), area_name, Fmt("{}%", <<Num(40)>>),
                     Str("in_progress"), Str("")>>)
          [] OTHER -> Fmt("detalles", <<Str("Migración"), area_name>>)]

\* the branch for nombre_iniciativa (backend-updated.py 81-124)
InitiativeBranch(params, tool_name_full, ans) ==
    CASE ans[2] = "raises" ->
           TenantFailure(tool_name_full, <<"user_profiles", "initiatives">>, TRUE)
      [] ans[2] = "malformed" ->
           TenantFailure(tool_name_full, <<"user_profiles", "initiatives">>, TRUE)
      [] ans[2] = "empty" ->
           TenantReply(200, tool_name_full,
               TenantError(Fmt("No se encontró la iniciativa '{}' en la empresa del usuario.",
                               <<params["nombre_iniciativa"]>>)),
               <<"user_profiles", "initiatives">>, TRUE)
      [] ans[2] = "row_no_area" ->
           TenantReply(200, tool_name_full, InitiativeOutput(Str("N/A")),
               <<"user_profiles", "initiatives">>, TRUE)
      [] ans[2] = "row" ->
           IF ans[3] = "raises"
           THEN TenantFailure(tool_name_full,
                    <<"user_profiles", "initiatives", "areas">>, TRUE)
           ELSE TenantReply(200, tool_name_full,
                    InitiativeOutput(IF ans[3] = "row" THEN Str("Finanzas")
                                     ELSE Str("N/A")),
                    <<"user_profiles", "initiatives", "areas">>,
                    ans[3] \in {"row", "empty"})
      [] OTHER -> TenantFailure(tool_name_full, <<"user_profiles">>, FALSE)

\* output_data of a found area with n initiatives (backend-updated.py 153-167)
AreaOutput(n) ==
    [k \in {"kpi_valor", "link", "resumen", "detalles"} |->
        CASE k = "kpi_valor" -> Fmt("{:.1f}%", <<Num(40 * n)>>)
          [] k = "link" ->
               Fmt("https://stratix-platform.vercel.app/areas/{}", <<Num(3)>>)
          [] k = "resumen" ->
               Fmt("El área '{}' tiene {} iniciativas con un progreso promedio del {}. {} iniciativas completadas. Eficiencia presupuestaria: {:.1f}%.",
                   <<Str("Finanzas"), Num(n), Fmt("{:.1f}%", <<Num(40 * n)>>),
                     Num(0), Num(100)>>)
          [] OTHER -> Fmt("detalles", <<Str("Finanzas"), Num(n)>>)]

\* the branch for nombre_area (backend-updated.py 126-171)
AreaBranch(params, tool_name_full, ans) ==
    CASE ans[2] = "raises" ->
           TenantFailure(tool_name_full, <<"user_profiles", "areas">>, TRUE)
      [] ans[2] = "empty" ->
           TenantReply(200, tool_name_full,
               TenantError(Fmt("No se encontró el área '{}' en la empresa del usuario.",
                               <<params["nombre_area"]>>)),
               <<"user_profiles", "areas">>, TRUE)
      [] ans[2] = "malformed" ->
           TenantFailure(tool_name_full, <<"user_profiles", "areas">>, TRUE)
      [] ans[2] = "row" ->
           IF ans[3] \in {"raises", "malformed"}
           THEN TenantFailure(tool_name_full,
                    <<"user_profiles", "areas", "initiatives">>, TRUE)
           ELSE TenantReply(200, tool_name_full,
                    AreaOutput(IF ans[3] = "row" THEN 1 ELSE 0),
                    <<"user_profiles", "areas", "initiatives">>,
                    ans[3] \in {"row", "empty"})
      [] OTHER -> TenantFailure(tool_name_full, <<"user_profiles">>, FALSE)

\* output_data of the company summary (backend-updated.py 192-203)
SummaryOutput(params, n, areas) ==
    [k \in {"resumen", "query_original", "metricas"} |->
        CASE k = "resumen" ->
               Fmt("Tu empresa tiene {} iniciativas activas distribuidas en {} áreas. Progreso promedio: {:.1f}%. {} iniciativas completadas. Presupuesto total: ${:,.2f}, gastado: ${:,.2f}.",
                   <<Num(n), Num(areas), Num(40 * n), Num(0), Num(0), Num(0)>>)
          [] k = "query_original" -> GetDefault(params, "user_query", Str(""))
          [] OTHER -> Fmt("metricas", <<Num(n), Num(areas)>>)]

\* the branch for user_query (backend-updated.py 173-203)
SummaryBranch(params, tool_name_full, ans) ==
    CASE ans[2] = "raises" ->
           TenantFailure(tool_name_full,
               <<"user_profiles", "initiatives_with_subtasks_summary">>, TRUE)
      [] ans[2] \in {"empty", "row", "malformed"} ->
           IF ans[3] = "raises" \/ (ans[2] = "malformed" /\ ans[3] \in {"row", "empty"})
           THEN TenantFailure(tool_name_full,
                    <<"user_profiles", "initiatives_with_subtasks_summary", "areas">>,
                    TRUE)
           ELSE TenantReply(200, tool_name_full,
                    SummaryOutput(params, IF ans[2] = "row" THEN 1 ELSE 0,
                                  IF ans[3] = "row" THEN 1 ELSE 0),
                    <<"user_profiles", "initiatives_with_subtasks_summary", "areas">>,
                    ans[3] \in {"row", "empty"})
      [] OTHER -> TenantFailure(tool_name_full, <<"user_profiles">>, FALSE)

\* mutant: the branches run although the user has no profile
Resolved_ignoringProfile(params, tool_name_full, user_id, ans) ==
    CASE ans[1] = "raises" -> TenantFailure(tool_name_full, <<"user_profiles">>, TRUE)
      [] ans[1] = "malformed" ->
           TenantFailure(tool_name_full, <<"user_profiles">>, TRUE)
      [] ans[1] \in {"row", "empty"} ->
           IF "nombre_iniciativa" \in DOMAIN params
           THEN InitiativeBranch(params, tool_name_full, ans)
           ELSE IF "nombre_area" \in DOMAIN params
           THEN AreaBranch(params, tool_name_full, ans)
           ELSE IF "user_query" \in DOMAIN params
           THEN SummaryBranch(params, tool_name_full, ans)
           ELSE TenantReply(200, tool_name_full,
                    TenantError(Str("No se recibieron los parámetros esperados (nombre_iniciativa, nombre_area, o user_query).")),
                    <<"user_profiles">>, TRUE)
      [] OTHER -> TenantFailure(tool_name_full, <<"user_profiles">>, FALSE)

\* the try block (backend-updated.py 63-214): the profile query, then the
\* branch chosen by the parameters
Resolved(params, tool_name_full, user_id, ans) ==
    CASE ans[1] = "raises" -> TenantFailure(tool_name_full, <<"user_profiles">>, TRUE)
      [] ans[1] = "empty" ->
           TenantReply(404, tool_name_full,
               TenantError(Fmt("No se encontró el perfil del usuario {}.", <<user_id>>)),
               <<"user_profiles">>, TRUE)
      [] ans[1] = "malformed" ->
           TenantFailure(tool_name_full, <<"user_profiles">>, TRUE)
      [] ans[1] = "row" ->
           IF "nombre_iniciativa" \in DOMAIN params
           THEN InitiativeBranch(params, tool_name_full, ans)
           ELSE IF "nombre_area" \in DOMAIN params
           THEN AreaBranch(params, tool_name_full, ans)
           ELSE IF "user_query" \in DOMAIN params
           THEN SummaryBranch(params, tool_name_full, ans)
           ELSE TenantReply(200, tool_name_full,
                    TenantError(Str("No se recibieron los parámetros esperados (nombre_iniciativa, nombre_area, o user_query).")),
                    <<"user_profiles">>, TRUE)
      [] OTHER -> TenantFailure(tool_name_full, <<"user_profiles">>, FALSE)

\* tool_name_full = request_json.get('tool', '')
ToolNameFull(body) == IF body.tool = Absent THEN Str("") ELSE body.tool

\* one invocation of the tenant-resolving handler, the data store
\* answering the queries with ans
TenantHandle(body, ans) ==
    IF Falsy(body)
    THEN TenantReply(400, Str(""),
             TenantError(Str("No se recibió un JSON válido en la solicitud.")),
             <<>>, TRUE)
    ELSE IF ~Truthy(GetDefault(body.params, "user_id", Str("")))
    THEN TenantReply(400, ToolNameFull(body),
             TenantError(Str("Se requiere el parámetro user_id.")), <<>>, TRUE)
    ELSE Resolved(body.params, ToolNameFull(body), body.params["user_id"], ans)

\* the answers are those of the queries that were issued
AnswersAsked(ans, h) ==
    /\ h.valid
    /\ \A i \in 1..MaxQueries : (ans[i] = Unasked) = (i > Len(h.queries))

TenantAnswered(body, ans, h) ==
    /\ AnswersAsked(ans, h)
    /\ tenant' = [phase |-> "responded", request |-> body, answers |-> ans,
                  queries |-> h.queries,
                  response |-> [status |-> h.status, shape |-> h.shape,
                                text |-> h.text, tool |-> h.tool,
                                output |-> h.output]]

\* an HTTP request arrives at the tenant-resolving handler and is answered
bot_stratix_backend_generative_tenant ==
    /\ tenant.phase = "idle"
    /\ \E body \in TenantBodies, ans \in AnswerVectors :
          TenantAnswered(body, ans, TenantHandle(body, ans))
    /\ UNCHANGED <<env, store, phase, request, reply, response, sent,
                   secretCalls, trace, configured, utterance, extracted>>

DiscardTenant ==
    /\ tenant.phase = "responded"
    /\ tenant' = TenantIdle
    /\ UNCHANGED <<env, store, phase, request, reply, response, sent,
                   secretCalls, trace, configured, utterance, extracted>>

InitTenant ==
    /\ tenant = TenantIdle
    /\ env = [project |-> FALSE, platformEnv |-> FALSE]
    /\ store = NothingRead
    /\ phase = "idle"
    /\ request = NoRequest
    /\ reply = NoReply
    /\ response = NoResponse
    /\ sent = <<>>
    /\ secretCalls = <<>>
    /\ trace = <<>>
    /\ configured = FALSE
    /\ utterance = <<>>
    /\ extracted = NotExtracted

NextTenant == bot_stratix_backend_generative_tenant \/ DiscardTenant

SpecTenant == InitTenant /\ [][NextTenant]_vars

TenantResponded == tenant.phase = "responded"

\* the request carries a user_id that is not empty
HasUserId ==
    /\ ~Falsy(tenant.request)
    /\ Truthy(GetDefault(tenant.request.params, "user_id", Str("")))

OutputHasResultOrError ==
    /\ tenant.response.shape = "tool_output"
    /\ \/ "error" \in DOMAIN tenant.response.output
       \/ "resumen" \in DOMAIN tenant.response.output

\* C18: in the tenant-resolving variant a request without a (non-empty)
\* user_id is answered with HTTP 400 before any query; a user_id that
\* resolves to no profile is answered with HTTP 404 after the profile
\* query alone; every other outcome, data-store exceptions and entities
\* not found included, is HTTP 200 with a result or an error in the output.
C18_TenantStatuses ==
    TenantResponded =>
        IF ~HasUserId
        THEN tenant.response.status = 400 /\ tenant.queries = <<>>
        ELSE IF tenant.answers[1] = "empty"
        THEN tenant.response.status = 404 /\ tenant.queries = <<"user_profiles">>
        ELSE tenant.response.status = 200 /\ OutputHasResultOrError

C18_Witness ==
    /\ TenantResponded
    /\ HasUserId
    /\ tenant.answers[1] = "empty"
    /\ "nombre_iniciativa" \in DOMAIN tenant.request.params
    /\ tenant.response.status = 404
    /\ tenant.queries = <<"user_profiles">>

\* C19: on every tool call that reaches the second mapper, the second
\* mapper recomputes the (action, params) pair of the first, strict one:
\* one of the six predicates holds, so the default branch of the second
\* mapper is not taken, and the forwarded pair is that of the strict mapper.
C19_MappersAgreeOnToolCalls ==
    (IsTool /\ Forwarded) =>
        /\ StrictMapper(request.params).ok
        /\ sent[1]["action"] = Str(StrictMapper(request.params).action)
        /\ sent[1]["params"] = StrictMapper(request.params).params

C19_Witness ==
    /\ IsTool /\ Forwarded
    /\ StrictMapper(request.params).ok
    /\ sent[1]["action"] = Str("get_initiative_suggestions")
    /\ sent[1]["params"] = StrictMapper(request.params).params

\* C20: every invocation of the main handler returns a response (the 400
\* payload, a fulfillmentResponse or a tool_output) for every parsed body,
\* and never ends with an exception that leaves the handler.
C20_AlwaysReturnsResponse ==
    Responded =>
        /\ response # UnhandledResponse
        /\ response.shape \in {"fulfillmentResponse", "tool_output"}

====
